---------------------------- MODULE Spec2Model ----------------------------
(***************************************************************************)
(* A model of the game-tree search engine: the game states (tic-tac-toe,   *)
(* connect four, Reversi), the GameTree with its expand / make_move        *)
(* operations, the minimax search with alpha-beta pruning and memoization, *)
(* the MinimaxPlayer and Game.play_game.                                   *)
(*                                                                         *)
(* Python objects are modelled by value.  A game state is a record whose   *)
(* field "game" stands for its class; the board is a sequence of rows, as  *)
(* in the code, indexed from 1 (the code's board[i][j] is board[i+1][j+1]).*)
(* Moves keep the code's 0-based coordinates.                              *)
(***************************************************************************)
EXTENDS Integers, Sequences, FiniteSets, TLC

\* Python's None where a tuple may stand (a move, winner()'s result): the empty tuple
None == <<>>

\* Python's None as the value of a node that has not been searched
NoValue == -9999

\* float('inf') and -float('inf'): every value of the model lies strictly between
Inf == 1000
NegInf == -Inf

Max(a, b) == IF a >= b THEN a ELSE b
Min(a, b) == IF a <= b THEN a ELSE b

\* the concatenation of a sequence of sequences
RECURSIVE Flatten(_)
Flatten(seqs) == IF seqs = <<>> THEN <<>> ELSE Head(seqs) \o Flatten(Tail(seqs))

-----------------------------------------------------------------------------
(* Tic-tac-toe: TicTacToeGameState *)

\* the side of the tic-tac-toe board
TTTSize == 3

\* TicTacToeGameState(): the empty board, X (player 1) to move
ttt_init ==
    [game |-> "TicTacToe",
     board |-> [i \in 1..TTTSize |-> [j \in 1..TTTSize |-> -1]],
     turn |-> TRUE,
     previous_move |-> None]

\* for i in range(3): for j in range(3)
ttt_cells == Flatten([i \in 1..TTTSize |-> [j \in 1..TTTSize |-> <<i - 1, j - 1>>]])

ttt_is_legal(s, move) == s.board[move[1] + 1][move[2] + 1] = -1

\* make_move that leaves previous_move as it was
ttt_make_move_keeping(s, move, check_legal) ==
    IF ~check_legal \/ ttt_is_legal(s, move)
    THEN [state |-> [s EXCEPT !.board[move[1] + 1][move[2] + 1] = IF s.turn THEN 1 ELSE 0,
                              !.turn = ~s.turn],
          result |-> TRUE]
    ELSE [state |-> s, result |-> FALSE]

\* the state after make_move, and the value make_move returns
ttt_make_move(s, move, check_legal) ==
    IF ~check_legal \/ ttt_is_legal(s, move)
    THEN [state |-> [s EXCEPT !.previous_move = move,
                              !.board[move[1] + 1][move[2] + 1] = IF s.turn THEN 1 ELSE 0,
                              !.turn = ~s.turn],
          result |-> TRUE]
    ELSE [state |-> s, result |-> FALSE]

\* the lines winner() looks at, in its order: columns, rows, the two diagonals
ttt_lines ==
    [i \in 1..3 |-> <<<<1, i>>, <<2, i>>, <<3, i>>>>]
    \o [i \in 1..3 |-> <<<<i, 1>>, <<i, 2>>, <<i, 3>>>>]
    \o << <<<<1, 1>>, <<2, 2>>, <<3, 3>>>>, <<<<1, 3>>, <<2, 2>>, <<3, 1>>>> >>

ttt_line_won(b, line) ==
    /\ b[line[1][1]][line[1][2]] = b[line[2][1]][line[2][2]]
    /\ b[line[2][1]][line[2][2]] = b[line[3][1]][line[3][2]]
    /\ b[line[1][1]][line[1][2]] \in {0, 1}

\* the first line from line number k on that one player holds, or None: the checks of
\* winner(), each with its return
RECURSIVE ttt_first_won(_, _)
ttt_first_won(b, k) ==
    IF k > Len(ttt_lines) THEN None
    ELSE IF ttt_line_won(b, ttt_lines[k]) THEN ttt_lines[k]
    ELSE ttt_first_won(b, k + 1)

\* winner() that finds the lines and not the full board
ttt_winner_of_lines(s) ==
    LET b == s.board
        hit == ttt_first_won(b, 1)
    IN  IF hit # None
        THEN IF b[hit[1][1]][hit[1][2]] = 1 THEN <<TRUE, TRUE>> ELSE <<TRUE, FALSE>>
        ELSE None

ttt_winner(s) ==
    LET b == s.board
        hit == ttt_first_won(b, 1)
    IN  IF hit # None
        THEN IF b[hit[1][1]][hit[1][2]] = 1 THEN <<TRUE, TRUE>> ELSE <<TRUE, FALSE>>
        ELSE IF \A i \in 1..3 : \A j \in 1..3 : b[i][j] # -1
             THEN <<FALSE, FALSE>>
             ELSE None

\* evaluate_position with the two signs exchanged
ttt_evaluate_position_flipped(s, heuristic_type) ==
    IF ttt_winner(s) = <<TRUE, TRUE>> THEN -1
    ELSE IF ttt_winner(s) = <<TRUE, FALSE>> THEN 1
    ELSE 0

ttt_evaluate_position(s, heuristic_type) ==
    LET winner == ttt_winner(s)
    IN  IF winner = <<TRUE, TRUE>> THEN 1
        ELSE IF winner = <<TRUE, FALSE>> THEN -1
        ELSE 0

\* the loop of legal_moves, entered at cell number k
RECURSIVE ttt_possible_moves(_, _)
ttt_possible_moves(s, k) ==
    IF k > Len(ttt_cells) THEN <<>>
    ELSE (IF ttt_is_legal(s, ttt_cells[k])
          THEN <<ttt_make_move(s, ttt_cells[k], FALSE).state>>
          ELSE <<>>) \o ttt_possible_moves(s, k + 1)

ttt_legal_moves(s) ==
    IF ttt_winner(s) # None THEN <<>>
    ELSE ttt_possible_moves(s, 1)

\* __str__: one token per cell, a newline after each row
ttt_piece_str(piece) == IF piece = -1 THEN " - " ELSE IF piece = 0 THEN " O " ELSE " X "

ttt_str(s) == Flatten([i \in 1..3 |-> [j \in 1..3 |-> ttt_piece_str(s.board[i][j])] \o <<"\n">>])

ttt_equal(s, t) == s.board = t.board

\* get_human_input: a click on a cell; the move is made unchecked.  made is FALSE
\* when the code returns None (no move)
ttt_get_human_input(s, position) ==
    LET new_game == ttt_make_move(s, position, FALSE)
    IN  [state |-> new_game.state, made |-> new_game.result]

-----------------------------------------------------------------------------
(* Connect four: ConnectFourGameState.  A move is a column, kept as <<column>>. *)

\* board[cell[0]][cell[1]]
at(b, cell) == b[cell[1] + 1][cell[2] + 1]

\* ConnectFourGameState(n): the empty n x n board, player 1 to move
c4_init(n) ==
    [game |-> "ConnectFour",
     n |-> n,
     board |-> [i \in 1..n |-> [j \in 1..n |-> -1]],
     turn |-> TRUE,
     previous_move |-> None]

c4_is_legal(s, move) == at(s.board, <<0, move[1]>>) = -1

\* the row the piece lands on: the loop of make_move, entered with row
RECURSIVE c4_landing_row(_, _, _)
c4_landing_row(s, column, row) ==
    IF row < s.n - 1
    THEN IF at(s.board, <<row + 1, column>>) # -1
         THEN row
         ELSE c4_landing_row(s, column, row + 1)
    ELSE s.n - 1

c4_make_move(s, move, check_legal) ==
    IF ~check_legal \/ c4_is_legal(s, move)
    THEN LET row == c4_landing_row(s, move[1], 0)
         IN  [state |-> [s EXCEPT !.previous_move = move,
                                  !.board[row + 1][move[1] + 1] = IF s.turn THEN 1 ELSE 0,
                                  !.turn = ~s.turn],
              result |-> TRUE]
    ELSE [state |-> s, result |-> FALSE]

\* the windows of four cells winner() looks at, in its order
c4_windows(n) ==
    Flatten([row \in 1..n |-> [column \in 1..(n - 3) |->
                [i \in 1..4 |-> <<row - 1, column - 1 + i - 1>>]]])
    \o Flatten([column \in 1..n |-> [row \in 1..(n - 3) |->
                [i \in 1..4 |-> <<row - 1 + i - 1, column - 1>>]]])
    \o Flatten([column \in 1..(n - 3) |-> [row \in 1..(n - 3) |->
                [i \in 1..4 |-> <<row - 1 + i - 1, column - 1 + i - 1>>]]])
    \o Flatten([column \in 1..(n - 3) |-> [row \in 1..(n - 3) |->
                [i \in 1..4 |-> <<row - 1 + i - 1, column + 2 - (i - 1)>>]]])

c4_window_won(b, window) ==
    \/ \A i \in 1..4 : at(b, window[i]) = 1
    \/ \A i \in 1..4 : at(b, window[i]) = 0

\* the first window from window number k on that one player holds, or None
RECURSIVE c4_first_won(_, _, _)
c4_first_won(b, windows, k) ==
    IF k > Len(windows) THEN None
    ELSE IF c4_window_won(b, windows[k]) THEN windows[k]
    ELSE c4_first_won(b, windows, k + 1)

c4_winner(s) ==
    LET b == s.board
        hit == c4_first_won(b, c4_windows(s.n), 1)
    IN  IF hit # None
        THEN IF at(b, hit[1]) = 1 THEN <<TRUE, TRUE>> ELSE <<TRUE, FALSE>>
        ELSE IF \A i \in 1..s.n : \A j \in 1..s.n : b[i][j] # -1
             THEN <<FALSE, FALSE>>
             ELSE None

c4_evaluate_position(s, heuristic_type) ==
    LET winner == c4_winner(s)
    IN  IF winner = <<TRUE, TRUE>> THEN 1
        ELSE IF winner = <<TRUE, FALSE>> THEN -1
        ELSE 0

\* the loop of legal_moves, entered at column i
RECURSIVE c4_possible_moves(_, _)
c4_possible_moves(s, i) ==
    IF i >= s.n THEN <<>>
    ELSE (IF c4_is_legal(s, <<i>>)
          THEN <<c4_make_move(s, <<i>>, FALSE).state>>
          ELSE <<>>) \o c4_possible_moves(s, i + 1)

c4_legal_moves(s) ==
    IF c4_winner(s) # None THEN <<>>
    ELSE c4_possible_moves(s, 0)

c4_piece_str(piece) == IF piece = -1 THEN " - " ELSE IF piece = 0 THEN " Y " ELSE " R "

c4_str(s) ==
    Flatten([i \in 1..s.n |-> [j \in 1..s.n |-> c4_piece_str(s.board[i][j])] \o <<"\n">>])

c4_equal(s, t) == s.board = t.board

\* get_human_input: a click on a column; the move is checked
c4_get_human_input(s, position) ==
    LET new_game == c4_make_move(s, position, TRUE)
    IN  [state |-> new_game.state, made |-> new_game.result]

-----------------------------------------------------------------------------
(* Reversi: ReversiGameState.  A pass is the move None. *)

\* ReversiGameState(n): the four centre pieces, black (player 1) to move
rev_init(n) ==
    [game |-> "Reversi",
     n |-> n,
     board |-> [i \in 1..n |-> [j \in 1..n |->
                  IF <<i - 1, j - 1>> \in {<<n \div 2, n \div 2>>, <<n \div 2 - 1, n \div 2 - 1>>}
                  THEN 0
                  ELSE IF <<i - 1, j - 1>> \in {<<n \div 2, n \div 2 - 1>>,
                                               <<n \div 2 - 1, n \div 2>>}
                  THEN 1
                  ELSE -1]],
     turn |-> TRUE,
     previous_move |-> None,
     has_passed |-> FALSE]

rev_directions ==
    <<<<1, 0>>, <<-1, 0>>, <<1, 1>>, <<-1, 1>>, <<1, -1>>, <<-1, -1>>, <<0, 1>>, <<0, -1>>>>

rev_in_bounds(s, move) ==
    0 <= move[1] /\ move[1] <= s.n - 1 /\ 0 <= move[2] /\ move[2] <= s.n - 1

rev_step(cell, direction) == <<cell[1] + direction[1], cell[2] + direction[2]>>

\* the cell at which the while loop of is_legal stops
RECURSIVE rev_skip(_, _, _, _)
rev_skip(s, check, direction, other_piece) ==
    IF rev_in_bounds(s, check) /\ at(s.board, check) = other_piece
    THEN rev_skip(s, rev_step(check, direction), direction, other_piece)
    ELSE check

\* is_legal(move, direction) for a direction other than (0, 0)
rev_is_legal_direction(s, move, direction) ==
    LET move_piece == IF s.turn THEN 1 ELSE 0
        check == rev_step(move, direction)
    IN  IF at(s.board, move) # -1 THEN FALSE
        ELSE IF ~rev_in_bounds(s, check) \/ at(s.board, check) # 1 - move_piece THEN FALSE
        ELSE LET last == rev_skip(s, check, direction, 1 - move_piece)
             IN  ~(~rev_in_bounds(s, last) \/ at(s.board, last) = -1)

\* is_legal(move): direction (0, 0), all directions are checked
rev_is_legal(s, move) ==
    IF at(s.board, move) # -1 THEN FALSE
    ELSE \E k \in 1..Len(rev_directions) : rev_is_legal_direction(s, move, rev_directions[k])

\* reverse_direction: the board after the while loop, entered at check
RECURSIVE rev_reverse_from(_, _, _, _)
rev_reverse_from(board, check, direction, piece) ==
    IF at(board, check) # piece
    THEN rev_reverse_from([board EXCEPT ![check[1] + 1][check[2] + 1] = piece],
                          rev_step(check, direction), direction, piece)
    ELSE board

rev_reverse_direction(s, start, direction) ==
    [s EXCEPT !.board = rev_reverse_from(s.board, rev_step(start, direction), direction,
                                         IF s.turn THEN 1 ELSE 0)]

\* the loop of make_move over the directions
RECURSIVE rev_reverse_all(_, _, _)
rev_reverse_all(s, move, k) ==
    IF k > Len(rev_directions) THEN s
    ELSE rev_reverse_all(IF rev_is_legal_direction(s, move, rev_directions[k])
                         THEN rev_reverse_direction(s, move, rev_directions[k])
                         ELSE s,
                         move, k + 1)

rev_make_move(s, move, check_legal) ==
    IF move = None
    THEN IF s.has_passed
         THEN [state |-> s, result |-> FALSE]
         ELSE [state |-> [s EXCEPT !.has_passed = TRUE, !.turn = ~s.turn], result |-> TRUE]
    ELSE IF ~check_legal \/ rev_is_legal(s, move)
    THEN LET reversed == rev_reverse_all([s EXCEPT !.previous_move = move], move, 1)
         IN  [state |-> [reversed EXCEPT
                            !.board[move[1] + 1][move[2] + 1] = IF s.turn THEN 1 ELSE 0,
                            !.turn = ~s.turn,
                            !.has_passed = FALSE],
              result |-> TRUE]
    ELSE [state |-> s, result |-> FALSE]

rev_cells(n) == Flatten([i \in 1..n |-> [j \in 1..n |-> <<i - 1, j - 1>>]])

\* the loops of legal_moves, entered at cell number k
RECURSIVE rev_possible_moves(_, _, _)
rev_possible_moves(s, cells, k) ==
    IF k > Len(cells) THEN <<>>
    ELSE (IF rev_is_legal(s, cells[k])
          THEN <<rev_make_move(s, cells[k], FALSE).state>>
          ELSE <<>>) \o rev_possible_moves(s, cells, k + 1)

rev_legal_moves(s) ==
    LET possible_moves == rev_possible_moves(s, rev_cells(s.n), 1)
    IN  IF ~s.has_passed /\ possible_moves = <<>>
        THEN <<rev_make_move(s, None, FALSE).state>>
        ELSE possible_moves

\* the number of cells of the board that hold piece
rev_count(s, piece) ==
    Cardinality({c \in (1..s.n) \X (1..s.n) : s.board[c[1]][c[2]] = piece})

\* the sign of evaluate_position(1) = (num_black - num_white) / n is that of its numerator
rev_net_black(s) == rev_count(s, 1) - rev_count(s, 0)

rev_winner(s) ==
    IF rev_legal_moves(s) # <<>> THEN None
    ELSE IF rev_net_black(s) > 0 THEN <<TRUE, TRUE>>
    ELSE IF rev_net_black(s) < 0 THEN <<TRUE, FALSE>>
    ELSE <<FALSE, FALSE>>

\* evaluate_position: heuristic_type 0 is the heuristic the minimax search uses;
\* heuristic_type 1 is (num_black - num_white) / self.n, given as the pair of the
\* numerator and the denominator; any other heuristic_type returns None
rev_evaluate_position(s, heuristic_type) ==
    IF heuristic_type = 0
    THEN LET winner == rev_winner(s)
         IN  IF winner = <<TRUE, TRUE>> THEN 1
             ELSE IF winner = <<TRUE, FALSE>> THEN -1
             ELSE 0
    ELSE IF heuristic_type = 1 THEN <<rev_net_black(s), s.n>>
    ELSE None

rev_piece_str(piece) == IF piece = -1 THEN " - " ELSE IF piece = 0 THEN " W " ELSE " B "

rev_str(s) ==
    Flatten([i \in 1..s.n |-> [j \in 1..s.n |-> rev_piece_str(s.board[i][j])] \o <<"\n">>])

rev_equal(s, t) == s.board = t.board /\ s.has_passed = t.has_passed

\* get_human_input: a click on a cell; the move is made unchecked
rev_get_human_input(s, position) ==
    LET new_game == rev_make_move(s, position, FALSE)
    IN  [state |-> new_game.state, made |-> new_game.result]

-----------------------------------------------------------------------------
(* The GameState interface: dynamic dispatch on the class of the state *)

legal_moves(s) ==
    CASE s.game = "TicTacToe" -> ttt_legal_moves(s)
      [] s.game = "ConnectFour" -> c4_legal_moves(s)
      [] s.game = "Reversi" -> rev_legal_moves(s)

winner(s) ==
    CASE s.game = "TicTacToe" -> ttt_winner(s)
      [] s.game = "ConnectFour" -> c4_winner(s)
      [] s.game = "Reversi" -> rev_winner(s)

evaluate_position(s, heuristic_type) ==
    CASE s.game = "TicTacToe" -> ttt_evaluate_position(s, heuristic_type)
      [] s.game = "ConnectFour" -> c4_evaluate_position(s, heuristic_type)
      [] s.game = "Reversi" -> rev_evaluate_position(s, heuristic_type)

str(s) ==
    CASE s.game = "TicTacToe" -> ttt_str(s)
      [] s.game = "ConnectFour" -> c4_str(s)
      [] s.game = "Reversi" -> rev_str(s)

equal(s, t) ==
    CASE s.game = "TicTacToe" -> ttt_equal(s, t)
      [] s.game = "ConnectFour" -> c4_equal(s, t)
      [] s.game = "Reversi" -> rev_equal(s, t)

\* the state a click on position gives, and whether the click made a move
get_human_input(s, position) ==
    CASE s.game = "TicTacToe" -> ttt_get_human_input(s, position)
      [] s.game = "ConnectFour" -> c4_get_human_input(s, position)
      [] s.game = "Reversi" -> rev_get_human_input(s, position)

\* the positions a click can give
click_positions(s) ==
    CASE s.game = "TicTacToe" -> {ttt_cells[k] : k \in 1..Len(ttt_cells)}
      [] s.game = "ConnectFour" -> {<<i - 1>> : i \in 1..s.n}
      [] s.game = "Reversi" -> {rev_cells(s.n)[k] : k \in 1..(s.n * s.n)}

-----------------------------------------------------------------------------
(* GameTree and its subclasses.  A node is a record; cls is its class.     *)
(* The code compares states with ==, which is object identity (no class    *)
(* defines __eq__): a state object is named here by the path of child      *)
(* indices from the node at hand to the node that holds it, and NotInTree  *)
(* names an object that no node of the subtree holds.                      *)

NotInTree == <<0>>

\* GameTree(start_state), MinimaxGameTree(start_state), MonteCarloSimulationGameTree(start_state, ...)
new_tree(cls, start_state) ==
    CASE cls = "GameTree" -> [cls |-> cls, root |-> start_state, children |-> <<>>]
      [] cls = "MinimaxGameTree" ->
            [cls |-> cls, root |-> start_state, children |-> <<>>, value |-> NoValue]
      [] cls = "MonteCarloSimulationGameTree" ->
            [cls |-> cls, root |-> start_state, children |-> <<>>, value |-> 0, visits |-> 1,
             repeat |-> 2000]
      [] cls = "MonteCarloNeuralNetwork" ->
            [cls |-> cls, root |-> start_state, children |-> <<>>, value |-> 0, visits |-> 1,
             repeat |-> 200]

\* the child a node makes for a move: a Monte Carlo tree hands its repeat down
child_tree(self, move) ==
    IF self.cls \in {"MonteCarloSimulationGameTree", "MonteCarloNeuralNetwork"}
    THEN [new_tree(self.cls, move) EXCEPT !.repeat = self.repeat]
    ELSE new_tree(self.cls, move)

\* [cls(move, ...) for move in moves]
new_children(self, moves) == [k \in 1..Len(moves) |-> child_tree(self, moves[k])]

\* the object `target`, seen from child number k
target_in_child(target, k) ==
    IF target # <<>> /\ Head(target) = k THEN Tail(target) ELSE NotInTree

\* expand_tree that makes the children again when the node has some already
RECURSIVE expand_tree_again(_, _)
expand_tree_again(self, target) ==
    IF target = <<>>
    THEN [self EXCEPT !.children = new_children(self, legal_moves(self.root))]
    ELSE [self EXCEPT !.children =
             [k \in 1..Len(self.children) |->
                 expand_tree_again(self.children[k], target_in_child(target, k))]]

RECURSIVE expand_tree(_, _)
expand_tree(self, target) ==
    IF target = <<>>
    THEN IF self.children = <<>>
         THEN [self EXCEPT !.children = new_children(self, legal_moves(self.root))]
         ELSE self
    ELSE [self EXCEPT !.children =
             [k \in 1..Len(self.children) |->
                 expand_tree(self.children[k], target_in_child(target, k))]]

\* expand_root that stops after the first child
expand_root_partial(self) ==
    IF self.children = <<>> /\ legal_moves(self.root) # <<>>
    THEN [self EXCEPT !.children = <<new_tree(self.cls, legal_moves(self.root)[1])>>]
    ELSE self

expand_root(self) == expand_tree(self, <<>>)

\* the first child whose root has the previous_move of state, or 0
RECURSIVE matching_child(_, _, _)
matching_child(children, state, k) ==
    IF k > Len(children) THEN 0
    ELSE IF children[k].root.previous_move = state.previous_move THEN k
    ELSE matching_child(children, state, k + 1)

\* make_move that takes the first child when no child matches, and never raises
make_move_lenient(self, state) ==
    IF self.children = <<>>
    THEN [tree |-> self, raised |-> FALSE]
    ELSE [tree |-> [self EXCEPT !.children = self.children[1].children, !.root = state],
          raised |-> FALSE]

\* make_move: the tree afterwards, and whether MoveNotLegalError was raised
make_move(self, state) ==
    LET k == matching_child(self.children, state, 1)
    IN  IF k = 0 THEN [tree |-> self, raised |-> TRUE]
        ELSE LET child == self.children[k]
                 moved == [self EXCEPT !.children = child.children, !.root = state]
             IN  [tree |-> CASE self.cls = "GameTree" -> moved
                             [] self.cls = "MinimaxGameTree" ->
                                    [moved EXCEPT !.value = child.value]
                             [] self.cls \in {"MonteCarloSimulationGameTree",
                                              "MonteCarloNeuralNetwork"} ->
                                    [moved EXCEPT !.value = child.value,
                                                  !.visits = child.visits],
                  raised |-> FALSE]

\* the paths of the nodes of a tree
RECURSIVE paths(_)
paths(self) ==
    {<<>>} \cup UNION {{<<k>> \o p : p \in paths(self.children[k])} :
                         k \in 1..Len(self.children)}

RECURSIVE node_at(_, _)
node_at(self, path) ==
    IF path = <<>> THEN self ELSE node_at(self.children[Head(path)], Tail(path))

-----------------------------------------------------------------------------
(* MinimaxGameTree.find_value and MinimaxPlayer.choose_move.  The memo     *)
(* table is a function from keys (depth, str(root), alpha, beta) to values;*)
(* an operator that changes the tree and the table returns both.           *)

\* an empty dict
empty_memo == [key \in {} |-> 0]

\* memoize[state_repr] = value
memo_store(memoize, state_repr, value) == (state_repr :> value) @@ memoize

\* a key that keeps the depth as it is given, negative or not
memo_key_of_given_depth(self, depth, alpha, beta) ==
    <<depth, str(self.root), alpha, beta>>

\* the key find_value builds from its arguments
memo_key(self, depth, alpha, beta) ==
    <<IF depth < 0 THEN -1 ELSE depth, str(self.root), alpha, beta>>

RECURSIVE find_value(_, _, _, _, _)
RECURSIVE find_value_children(_, _, _, _, _, _)

\* the loop with a fail-soft cutoff: the value at a cutoff is the child's value that
\* crossed the bound
find_value_children_fail_soft(self, memoize, depth, alpha, beta, k) ==
    IF k > Len(self.children)
    THEN [tree |-> [self EXCEPT !.value = IF self.root.turn THEN alpha ELSE beta],
          memo |-> memoize]
    ELSE LET done == find_value(self.children[k], memoize, depth - 1, alpha, beta)
             child == done.tree
             searched == [self EXCEPT !.children[k] = child]
             new_alpha == IF self.root.turn THEN Max(alpha, child.value) ELSE alpha
             new_beta == IF self.root.turn THEN beta ELSE Min(beta, child.value)
         IN  IF new_alpha >= new_beta
             THEN [tree |-> [searched EXCEPT !.value = child.value], memo |-> done.memo]
             ELSE find_value_children(searched, done.memo, depth, new_alpha, new_beta, k + 1)

\* the for loop over the children, entered at child k with the running alpha and beta;
\* it ends with the value of self set, by a cutoff or after the last child
find_value_children(self, memoize, depth, alpha, beta, k) ==
    IF k > Len(self.children)
    THEN [tree |-> [self EXCEPT !.value = IF self.root.turn THEN alpha ELSE beta],
          memo |-> memoize]
    ELSE LET done == find_value(self.children[k], memoize, depth - 1, alpha, beta)
             child == done.tree
             searched == [self EXCEPT !.children[k] = child]
             new_alpha == IF self.root.turn THEN Max(alpha, child.value) ELSE alpha
             new_beta == IF self.root.turn THEN beta ELSE Min(beta, child.value)
         IN  IF new_alpha >= new_beta
             THEN [tree |-> [searched EXCEPT !.value = IF self.root.turn THEN beta ELSE alpha],
                   memo |-> done.memo]
             ELSE find_value_children(searched, done.memo, depth, new_alpha, new_beta, k + 1)

\* find_value with a floor for every depth that is not positive
find_value_floor_at_negative(self, memoize, depth, alpha, beta) ==
    LET state_repr == memo_key(self, depth, alpha, beta)
    IN  IF state_repr \in DOMAIN memoize
        THEN [tree |-> [self EXCEPT !.value = memoize[state_repr]], memo |-> memoize]
        ELSE IF depth <= 0 \/ winner(self.root) # None
        THEN [tree |-> [self EXCEPT !.value = evaluate_position(self.root, 0)],
              memo |-> memoize]
        ELSE LET done == find_value_children(expand_root(self), memoize, depth, alpha, beta, 1)
             IN  [tree |-> done.tree,
                  memo |-> memo_store(done.memo, state_repr, done.tree.value)]

find_value(self, memoize, depth, alpha, beta) ==
    LET state_repr == memo_key(self, depth, alpha, beta)
    IN  IF state_repr \in DOMAIN memoize
        THEN [tree |-> [self EXCEPT !.value = memoize[state_repr]], memo |-> memoize]
        ELSE IF depth = 0 \/ winner(self.root) # None
        THEN [tree |-> [self EXCEPT !.value = evaluate_position(self.root, 0)],
              memo |-> memoize]
        ELSE LET done == find_value_children(expand_root(self), memoize, depth, alpha, beta, 1)
             IN  [tree |-> done.tree,
                  memo |-> memo_store(done.memo, state_repr, done.tree.value)]

\* the test with >= and <=: the last of the children of equal value is kept
better_or_equal(turn, move_value, best_value) ==
    \/ turn /\ move_value >= best_value
    \/ ~turn /\ move_value <= best_value

\* the test that maximises whoever is to move
better_for_player1(turn, move_value, best_value) == move_value > best_value

\* the test choose_move makes to replace best_move by move
better(turn, move_value, best_value) ==
    \/ turn /\ move_value > best_value
    \/ ~turn /\ move_value < best_value

\* the loop of choose_move, entered at child k with best_move the child number best
RECURSIVE choose_move_children(_, _, _, _, _)
choose_move_children(game_tree, memoize, depth, best, k) ==
    IF k > Len(game_tree.children)
    THEN [tree |-> game_tree, memo |-> memoize, best |-> best,
          move |-> game_tree.children[best].root]
    ELSE LET done == find_value(game_tree.children[k], memoize, depth, NegInf, Inf)
             searched == [game_tree EXCEPT !.children[k] = done.tree]
             new_best == IF better(game_tree.root.turn, searched.children[k].value,
                                   searched.children[best].value)
                         THEN k ELSE best
         IN  choose_move_children(searched, done.memo, depth, new_best, k + 1)

\* MinimaxPlayer.choose_move: the move returned, the tree and the memo table afterwards
\* (the root must have children)
choose_move(game_tree, memoize, depth) ==
    choose_move_children(game_tree, memoize, depth, 1, 1)

\* the values of the children of a node
child_values(self) == [k \in 1..Len(self.children) |-> self.children[k].value]

-----------------------------------------------------------------------------
(* The Monte Carlo tree search: MonteCarloGameTree and its two subclasses. *)
(* value holds rewards counted in halves (2 is the reward 1, 1 is the 0.5  *)
(* of a tie), so that it stays an integer: the code's value / visits is    *)
(* value / (2 * visits) here.  What random.choice, the random playout and  *)
(* the neural network give is an input of the search.                      *)

\* the winners a game of two RandomPlayers started at s can end with: play_game picks a
\* child of the current state until winner() is not None
RECURSIVE play_game_winners(_)
play_game_winners(s) ==
    IF winner(s) # None THEN {winner(s)}
    ELSE UNION {play_game_winners(legal_moves(s)[k]) : k \in 1..Len(legal_moves(s))}

\* the reward in the way of evaluate_position: 1 for a win, -1 for a loss, 0 for a tie
reward_of_winner_signed(self, game_winner) ==
    IF game_winner[1]
    THEN IF game_winner[2] # self.root.turn THEN 2 ELSE -2
    ELSE 0

\* the reward given to the side to move at the node
reward_of_winner_to_move(self, game_winner) ==
    IF game_winner[1]
    THEN IF game_winner[2] = self.root.turn THEN 2 ELSE 0
    ELSE 1

\* the reward for a finished game, seen from the node: 1 if the side not to move at the
\* node has won, 0 if it has lost, 0.5 for a tie
reward_of_winner(self, game_winner) ==
    IF game_winner[1]
    THEN IF game_winner[2] # self.root.turn THEN 2 ELSE 0
    ELSE 1

\* the calls of neural_network.predict that move_value makes on a node
predict_calls(self) ==
    IF self.cls = "MonteCarloNeuralNetwork" /\ winner(self.root) = None THEN 1 ELSE 0

\* move_value that asks the network at terminal states too
move_value_always_predicted(self, outcome) ==
    IF self.cls = "MonteCarloSimulationGameTree"
    THEN reward_of_winner(self, outcome)
    ELSE IF ~self.root.turn THEN outcome + 1 ELSE 2 - (outcome + 1)

\* MonteCarloSimulationGameTree.move_value; outcome is the winner of the random game
\* MonteCarloNeuralNetwork.move_value; outcome is the class the network predicts
move_value(self, outcome) ==
    IF self.cls = "MonteCarloSimulationGameTree"
    THEN reward_of_winner(self, outcome)
    ELSE IF winner(self.root) # None
    THEN reward_of_winner(self, winner(self.root))
    ELSE IF ~self.root.turn THEN outcome + 1 ELSE 2 - (outcome + 1)

\* the states a game of two RandomPlayers started at s can end in
RECURSIVE play_game_ends(_)
play_game_ends(s) ==
    IF winner(s) # None THEN {s}
    ELSE UNION {play_game_ends(legal_moves(s)[k]) : k \in 1..Len(legal_moves(s))}

\* move_value whose players are given the node itself as their game tree: the game
\* moves the node on to the state it ends in
node_after_move_value_shared(self, outcome) ==
    IF self.cls = "MonteCarloSimulationGameTree"
    THEN [self EXCEPT !.root = CHOOSE s \in play_game_ends(self.root) : winner(s) = outcome,
                      !.children = <<>>]
    ELSE self

\* the node after move_value: the players are made from copies of the root and have
\* game trees of their own, the game replaces its state by the moves it is given and
\* assigns to nothing of the node; the neural network only reads the root
node_after_move_value(self, outcome) == self

\* the classes MLPClassifier.predict answers with: a loss, a tie or a win of player 1
Predictions == {-1, 0, 1}

\* what move_value can be given at a node
outcomes(self) ==
    IF self.cls = "MonteCarloSimulationGameTree" THEN play_game_winners(self.root)
    ELSE IF winner(self.root) # None THEN {0}
    ELSE Predictions

\* the default exploration_parameter 1.4142, in ten-thousandths
ExplorationParameter == 14142

\* math.log(n) in millionths, for n = 1, 2, ...
log_table ==
    <<0, 693147, 1098612, 1386294, 1609438, 1791759, 1945910, 2079442, 2197225, 2302585,
      2397895, 2484907, 2564949, 2639057, 2708050, 2772589, 2833213, 2890372, 2944439,
      2995732>>

\* the integer square root of n, known to lie in low..high
RECURSIVE sqrt_between(_, _, _)
sqrt_between(n, low, high) ==
    IF low = high THEN low
    ELSE LET middle == (low + high + 1) \div 2
         IN  IF middle * middle <= n THEN sqrt_between(n, middle, high)
             ELSE sqrt_between(n, low, middle - 1)

\* MonteCarloSimulationGameTree.ucb, in ten-millionths
ucb(self, visits_parent) ==
    IF self.visits = 0 THEN 2147483647
    ELSE LET exploitation_value == (self.value * 5000000) \div self.visits
             exploration_value ==
                 (ExplorationParameter
                  * sqrt_between((log_table[visits_parent] * 100) \div self.visits, 0, 20000))
                 \div 10
         IN  exploration_value + exploitation_value

\* the class has a ucb of its own; MonteCarloGameTree.ucb raises NotImplementedError
has_ucb(self) == self.cls = "MonteCarloSimulationGameTree"

\* the loop of select_child, entered at child k with explore the child number explore
RECURSIVE select_child_from(_, _, _)
select_child_from(self, explore, k) ==
    IF k > Len(self.children) THEN explore
    ELSE IF ucb(self.children[k], self.visits) > ucb(self.children[explore], self.visits)
    THEN select_child_from(self, k, k + 1)
    ELSE select_child_from(self, explore, k + 1)

\* select_child: the number of the child to explore
select_child(self) == select_child_from(self, 1, 1)

\* the node a search from self comes to a leaf at, as the path to it (NotInTree when
\* the selection raises on the way)
RECURSIVE search_leaf(_)
search_leaf(self) ==
    IF self.children = <<>> THEN <<>>
    ELSE IF ~has_ucb(self.children[1]) THEN NotInTree
    ELSE LET below == search_leaf(self.children[select_child(self)])
         IN  IF below = NotInTree THEN NotInTree ELSE <<select_child(self)>> \o below

\* monte_carlo_tree_search that evaluates every child the expansion has made
RECURSIVE monte_carlo_tree_search_all_children(_, _, _)
monte_carlo_tree_search_all_children(self, pick, outcome) ==
    IF self.children # <<>>
    THEN LET explore == select_child(self)
             done == monte_carlo_tree_search_all_children(self.children[explore], pick,
                                                          outcome)
         IN  [tree |-> [self EXCEPT !.children[explore] = done.tree,
                                    !.value = @ + done.returned, !.visits = @ + 1],
              returned |-> 2 - done.returned, evaluations |-> done.evaluations,
              raised |-> FALSE]
    ELSE LET expanded == expand_root(self)
             reward == IF expanded.children = <<>> THEN move_value(self, outcome)
                       ELSE 2 - move_value(expanded.children[pick], outcome)
         IN  [tree |-> [expanded EXCEPT
                           !.children = [k \in 1..Len(expanded.children) |->
                                            [expanded.children[k] EXCEPT
                                                !.value = @ + (2 - reward),
                                                !.visits = @ + 1]],
                           !.value = @ + reward, !.visits = @ + 1],
              returned |-> 2 - reward,
              evaluations |-> IF expanded.children = <<>> THEN 1
                              ELSE Len(expanded.children),
              raised |-> FALSE]

RECURSIVE monte_carlo_tree_search(_, _, _)

\* monte_carlo_tree_search that hands the reward up as it got it, with no flip
monte_carlo_tree_search_without_flip(self, pick, outcome) ==
    IF self.children # <<>>
    THEN IF ~has_ucb(self.children[1])
         THEN [tree |-> self, returned |-> 0, evaluations |-> 0, raised |-> TRUE]
         ELSE LET explore == select_child(self)
                  done == monte_carlo_tree_search(self.children[explore], pick, outcome)
                  reward == done.returned
              IN  IF done.raised
                  THEN [tree |-> [self EXCEPT !.children[explore] = done.tree],
                        returned |-> 0, evaluations |-> done.evaluations, raised |-> TRUE]
                  ELSE [tree |-> [self EXCEPT !.children[explore] = done.tree,
                                              !.value = @ + reward, !.visits = @ + 1],
                        returned |-> reward, evaluations |-> done.evaluations,
                        raised |-> FALSE]
    ELSE LET expanded == expand_root(self)
         IN  IF expanded.children # <<>>
             THEN LET reward == 2 - move_value(expanded.children[pick], outcome)
                      child == node_after_move_value(expanded.children[pick], outcome)
                  IN  [tree |-> [expanded EXCEPT
                                    !.children[pick] = [child EXCEPT !.value = @ + (2 - reward),
                                                                     !.visits = @ + 1],
                                    !.value = @ + reward, !.visits = @ + 1],
                       returned |-> reward, evaluations |-> 1, raised |-> FALSE]
             ELSE LET reward == move_value(self, outcome)
                      leaf == node_after_move_value(expanded, outcome)
                  IN  [tree |-> [leaf EXCEPT !.value = @ + reward, !.visits = @ + 1],
                       returned |-> reward, evaluations |-> 1, raised |-> FALSE]

\* monte_carlo_tree_search: the tree afterwards, the value returned, the number of calls
\* of move_value, and whether NotImplementedError was raised.  pick is the child
\* random.choice takes at the leaf, outcome what move_value is given there.
monte_carlo_tree_search(self, pick, outcome) ==
    IF self.children # <<>>
    THEN IF ~has_ucb(self.children[1])
         THEN [tree |-> self, returned |-> 0, evaluations |-> 0, raised |-> TRUE]
         ELSE LET explore == select_child(self)
                  done == monte_carlo_tree_search(self.children[explore], pick, outcome)
                  reward == done.returned
              IN  IF done.raised
                  THEN [tree |-> [self EXCEPT !.children[explore] = done.tree],
                        returned |-> 0, evaluations |-> done.evaluations, raised |-> TRUE]
                  ELSE [tree |-> [self EXCEPT !.children[explore] = done.tree,
                                              !.value = @ + reward, !.visits = @ + 1],
                        returned |-> 2 - reward, evaluations |-> done.evaluations,
                        raised |-> FALSE]
    ELSE LET expanded == expand_root(self)
         IN  IF expanded.children # <<>>
             THEN LET reward == 2 - move_value(expanded.children[pick], outcome)
                      child == node_after_move_value(expanded.children[pick], outcome)
                  IN  [tree |-> [expanded EXCEPT
                                    !.children[pick] = [child EXCEPT !.value = @ + (2 - reward),
                                                                     !.visits = @ + 1],
                                    !.value = @ + reward, !.visits = @ + 1],
                       returned |-> 2 - reward, evaluations |-> 1, raised |-> FALSE]
             ELSE LET reward == move_value(self, outcome)
                      leaf == node_after_move_value(expanded, outcome)
                  IN  [tree |-> [leaf EXCEPT !.value = @ + reward, !.visits = @ + 1],
                       returned |-> 2 - reward, evaluations |-> 1, raised |-> FALSE]

\* the children random.choice picks from at the leaf a search comes to
leaf_picks(self) ==
    LET path == search_leaf(self)
    IN  IF path = NotInTree \/ legal_moves(node_at(self, path).root) = <<>> THEN {1}
        ELSE 1..Len(legal_moves(node_at(self, path).root))

\* the node whose move_value the search calls, when child number pick is taken
leaf_evaluated(self, pick) ==
    LET leaf == expand_root(node_at(self, search_leaf(self)))
    IN  IF leaf.children = <<>> THEN leaf ELSE leaf.children[pick]

\* what move_value can be given there
leaf_outcomes(self, pick) ==
    IF search_leaf(self) = NotInTree THEN {0} ELSE outcomes(leaf_evaluated(self, pick))

\* the test with >=: the last of the children of equal average is kept
better_average_or_equal(move, best_value, best_visits) ==
    move.value * best_visits >= best_value * move.visits

\* average_value > best_average_value, the best average being best_value / best_visits
\* (-float("inf") is the pair -1, 1)
better_average(move, best_value, best_visits) ==
    move.value * best_visits > best_value * move.visits

\* the loop of choose_move after the search, entered at child k
RECURSIVE best_child_from(_, _, _, _, _)
best_child_from(game_tree, best_move, best_value, best_visits, k) ==
    IF k > Len(game_tree.children) THEN best_move
    ELSE LET move == game_tree.children[k]
         IN  IF move.visits = 0
             THEN best_child_from(game_tree, best_move, best_value, best_visits, k + 1)
             ELSE IF better_average(move, best_value, best_visits)
             THEN best_child_from(game_tree, k, move.value, move.visits, k + 1)
             ELSE best_child_from(game_tree, best_move, best_value, best_visits, k + 1)

\* MonteCarloSimulationPlayer.choose_move and MonteCarloNeuralNetworkPlayer.choose_move
\* after find_value: the number of the child whose root is returned
best_child(game_tree) == best_child_from(game_tree, 1, -1, 1, 1)

-----------------------------------------------------------------------------
(* Player.make_move and Game.play_game.  A player is a record: cls is its  *)
(* class, and a RandomPlayer's choice is the input pick.                   *)

\* MinimaxPlayer(start_state, depth=depth)
MinimaxPlayer(start_state, depth) ==
    [cls |-> "MinimaxPlayer", game_tree |-> new_tree("MinimaxGameTree", start_state),
     depth |-> depth, memoize |-> empty_memo]

\* RandomPlayer(start_state)
RandomPlayer(start_state) ==
    [cls |-> "RandomPlayer", game_tree |-> new_tree("GameTree", start_state),
     depth |-> 0, memoize |-> empty_memo]

\* the tree of a player that is not told the opponent's move
tree_to_choose_unadvanced(self, opponent_move) ==
    [tree |-> expand_root(self.game_tree), raised |-> FALSE]

\* the tree of a player when it comes to choose: the root expanded, the opponent's
\* move made (opponent_move is <<>> for None, or <<state>>), the root expanded again
tree_to_choose(self, opponent_move) ==
    IF opponent_move = <<>>
    THEN [tree |-> expand_root(self.game_tree), raised |-> FALSE]
    ELSE LET done == make_move(expand_root(self.game_tree), opponent_move[1])
         IN  [tree |-> expand_root(done.tree), raised |-> done.raised]

\* self.choose_move() on the tree ready: choose_move of a MinimaxPlayer, and for a
\* RandomPlayer the child number pick, the outcome of random.choice
player_choose(self, ready, pick) ==
    IF self.cls = "MinimaxPlayer"
    THEN choose_move(ready, self.memoize, self.depth)
    ELSE [tree |-> ready, memo |-> self.memoize, best |-> pick,
          move |-> ready.children[pick].root]

\* Player.make_move: the player afterwards, the move chosen, and the values the
\* children of the root had when the move was chosen (none for a RandomPlayer)
player_make_move(self, opponent_move, pick) ==
    CHOOSE made \in
        {[player |-> [self EXCEPT !.game_tree = make_move(chosen.tree, chosen.move).tree,
                                  !.memoize = chosen.memo],
          move |-> chosen.move,
          values |-> IF self.cls = "MinimaxPlayer" THEN child_values(chosen.tree) ELSE <<>>] :
         chosen \in {player_choose(self, tree_to_choose(self, opponent_move).tree, pick)}} :
        TRUE

\* the choices a player has: the children a RandomPlayer picks from
picks(self, opponent_move) ==
    IF self.cls = "RandomPlayer"
    THEN 1..Len(tree_to_choose(self, opponent_move).tree.children)
    ELSE {1}

-----------------------------------------------------------------------------
(* The positions the operations are applied to.                            *)

\* state.make_move(move, check_legal)
state_make_move(s, move, check_legal) ==
    CASE s.game = "TicTacToe" -> ttt_make_move(s, move, check_legal)
      [] s.game = "ConnectFour" -> c4_make_move(s, move, check_legal)
      [] s.game = "Reversi" -> rev_make_move(s, move, check_legal)

\* the state after the moves of a sequence, each one checked
RECURSIVE play_moves(_, _)
play_moves(s, moves) ==
    IF moves = <<>> THEN s
    ELSE play_moves(state_make_move(s, Head(moves), TRUE).state, Tail(moves))

\* the side of the connect four board (the least the constructor accepts)
C4Size == 4
\* the side of the Reversi board
RevSize == 4

\* tic-tac-toe after six moves: X O X / O X - / - O -, player 1 to move
TTTLate ==
    play_moves(ttt_init, <<<<0, 0>>, <<0, 1>>, <<0, 2>>, <<1, 0>>, <<1, 1>>, <<2, 1>>>>)

\* connect four after twelve moves: the first column is full, player 1 to move
C4Late ==
    play_moves(c4_init(C4Size),
               <<<<3>>, <<1>>, <<2>>, <<0>>, <<3>>, <<2>>, <<3>>, <<1>>, <<0>>, <<0>>,
                 <<0>>, <<1>>>>)

\* Reversi after seven moves: five cells are free, player 2 to move
RevLate ==
    play_moves(rev_init(RevSize),
               <<<<3, 2>>, <<1, 3>>, <<0, 0>>, <<1, 0>>, <<2, 0>>, <<3, 0>>, <<0, 2>>>>)

\* Reversi after ten moves: two cells are free, player 1 to move, who can only pass
RevPass ==
    play_moves(rev_init(RevSize),
               <<<<0, 1>>, <<0, 0>>, <<1, 0>>, <<0, 2>>, <<0, 3>>, <<2, 0>>, <<3, 2>>,
                 <<2, 3>>, <<3, 0>>, <<3, 1>>>>)

\* Reversi after seven other moves: five cells are free, player 2 to move
RevLate2 ==
    play_moves(rev_init(RevSize),
               <<<<0, 1>>, <<0, 0>>, <<3, 2>>, <<0, 2>>, <<1, 0>>, <<3, 1>>, <<3, 0>>>>)

\* the number of free cells of a board
free(s) ==
    Cardinality({c \in (1..Len(s.board)) \X (1..Len(s.board)) : s.board[c[1]][c[2]] = -1})

\* state is one of the legal successors of root
is_legal_successor(root, state) ==
    \E k \in 1..Len(legal_moves(root)) : legal_moves(root)[k] = state

\* the states a click of the human player gives from state s
human_inputs(s) ==
    {get_human_input(s, position).state :
        position \in {p \in click_positions(s) : get_human_input(s, p).made}}

\* the states advance is called with: the legal successors and the human player's inputs
advance_inputs(s) ==
    {legal_moves(s)[k] : k \in 1..Len(legal_moves(s))} \cup human_inputs(s)

\* the number of children whose root has the previous_move of state
matches(children, state) ==
    Cardinality({k \in 1..Len(children) :
                    children[k].root.previous_move = state.previous_move})

-----------------------------------------------------------------------------
(* State.  tree and memoize are a game tree and the memo table used with    *)
(* it; game is a Game with its two players; last records the operation     *)
(* that gave the state and what it returned; legal_only records that       *)
(* advance was only ever called with legal successors; ply counts moves.   *)

VARIABLES tree, memoize, game, last, legal_only, ply

vars == <<tree, memoize, game, last, legal_only, ply>>

\* the number of plies played from the initial state
MaxPly == 7
\* the depth below the root down to which any node may be expanded
MaxTreeDepth == 2
\* the search depths are -1 and 0..MaxDepth
MaxDepth == 2
\* a search is run on positions with at most MaxFree free cells
MaxFree == 4
\* a Monte Carlo player is given a repeat of 1..MaxRepeat
MaxRepeat == 4

SearchDepths == {-1} \cup 0..MaxDepth

no_op ==
    [op |-> "init", state |-> ttt_init, target |-> <<>>, depth |-> 0, raised |-> FALSE,
     matches |-> 0, before |-> 0, values |-> <<>>, evaluations |-> 0, predictions |-> 0]

\* Game.history, a list that is only appended to, kept as its first entry, its last
\* entry and its length: self.history = [game_state]
new_history(game_state) == [first |-> game_state, last |-> game_state, length |-> 1]

\* a history that keeps its last entry and its length when a state is appended
history_replaced(history, new_state) == [history EXCEPT !.last = new_state]

\* self.history.append(new_state)
history_append(history, new_state) ==
    [history EXCEPT !.last = new_state, !.length = @ + 1]

no_game ==
    [game_state |-> ttt_init, player |-> 0, previous_state |-> <<>>,
     player1 |-> RandomPlayer(ttt_init), player2 |-> RandomPlayer(ttt_init),
     history |-> new_history(ttt_init)]

-----------------------------------------------------------------------------
(* Spec: the operations of a game tree, in any order.                      *)

TreeClasses == {"GameTree", "MinimaxGameTree", "MonteCarloSimulationGameTree"}

TreeStarts == {TTTLate, C4Late, RevPass}

Init ==
    /\ \E cls \in TreeClasses, s \in TreeStarts : tree = new_tree(cls, s)
    /\ memoize = empty_memo
    /\ game = no_game
    /\ last = no_op
    /\ legal_only = TRUE
    /\ ply = 0

\* tree.expand_root()
ExpandRoot ==
    /\ tree' = expand_root(tree)
    /\ last' = [no_op EXCEPT !.op = "expand_root", !.before = Len(tree.children)]
    /\ UNCHANGED <<memoize, game, legal_only, ply>>

\* tree.expand_tree(state), state the root of a node below the root, or of no node
ExpandTree ==
    /\ \E target \in {p \in paths(tree) : 0 < Len(p) /\ Len(p) <= MaxTreeDepth}
                        \cup {NotInTree} :
          /\ tree' = expand_tree(tree, target)
          /\ last' = [no_op EXCEPT !.op = "expand_tree", !.target = target,
                                   !.before = IF target = NotInTree THEN 0
                                              ELSE Len(node_at(tree, target).children)]
    /\ UNCHANGED <<memoize, game, legal_only, ply>>

\* tree.make_move(state)
MakeMove ==
    /\ \E state \in advance_inputs(tree.root) :
          LET done == make_move(tree, state)
          IN  /\ tree' = done.tree
              /\ last' = [no_op EXCEPT !.op = "make_move", !.state = state,
                                       !.raised = done.raised,
                                       !.matches = matches(tree.children, state)]
              /\ legal_only' = (legal_only /\ is_legal_successor(tree.root, state))
    /\ UNCHANGED <<memoize, game, ply>>

\* choose_move() of a MinimaxPlayer of the default depth, -1, on the tree, with the
\* table memoize
ChooseMove ==
    /\ tree.cls = "MinimaxGameTree"
    /\ tree.children # <<>>
    /\ \E chosen \in {choose_move(tree, memoize, -1)} :
          /\ tree' = chosen.tree
          /\ memoize' = chosen.memo
          /\ last' = [no_op EXCEPT !.op = "choose_move", !.state = chosen.move,
                                   !.depth = -1]
    /\ UNCHANGED <<game, legal_only, ply>>

Next == ExpandRoot \/ ExpandTree \/ MakeMove \/ ChooseMove

Spec == Init /\ [][Next]_vars

-----------------------------------------------------------------------------
(* SpecPlay: the games played move by move from their initial states, for  *)
(* MaxPly plies, in a GameTree that is expanded and advanced as            *)
(* Player.make_move does.                                                  *)

InitialStates == {ttt_init, c4_init(C4Size), rev_init(RevSize)}

PlayInit ==
    /\ \E s \in InitialStates : tree = new_tree("GameTree", s)
    /\ memoize = empty_memo
    /\ game = no_game
    /\ last = no_op
    /\ legal_only = TRUE
    /\ ply = 0

\* game_tree.expand_root()
PlayExpand ==
    /\ tree.children = <<>>
    /\ tree' = expand_root(tree)
    /\ last' = [no_op EXCEPT !.op = "expand_root"]
    /\ UNCHANGED <<memoize, game, legal_only, ply>>

\* game_tree.make_move(state) for a legal successor of the root
PlayAdvance ==
    /\ ply < MaxPly
    /\ tree.children # <<>>
    /\ \E k \in 1..Len(legal_moves(tree.root)) :
          LET state == legal_moves(tree.root)[k]
              done == make_move(tree, state)
          IN  /\ tree' = done.tree
              /\ last' = [no_op EXCEPT !.op = "make_move", !.state = state,
                                       !.raised = done.raised,
                                       !.matches = matches(tree.children, state)]
    /\ ply' = ply + 1
    /\ UNCHANGED <<memoize, game, legal_only>>

PlayNext == PlayExpand \/ PlayAdvance

SpecPlay == PlayInit /\ [][PlayNext]_vars

-----------------------------------------------------------------------------
(* SpecSearch: one choose_move with an empty memo table, at the positions  *)
(* reached by legal play that have at most MaxFree free cells.             *)

SearchStarts == {ttt_init, RevLate}

SearchInit ==
    /\ \E s \in SearchStarts : tree = new_tree("MinimaxGameTree", s)
    /\ memoize = empty_memo
    /\ game = no_game
    /\ last = no_op
    /\ legal_only = TRUE
    /\ ply = 0

\* the opponent's move, as Player.make_move makes it: expand_root, then make_move
SearchAdvance ==
    /\ last.op # "choose_move"
    /\ \E k \in 1..Len(legal_moves(tree.root)) :
          LET state == legal_moves(tree.root)[k]
              done == make_move(expand_root(tree), state)
          IN  /\ tree' = done.tree
              /\ last' = [no_op EXCEPT !.op = "make_move", !.state = state,
                                       !.raised = done.raised]
    /\ ply' = ply + 1
    /\ UNCHANGED <<memoize, game, legal_only>>

\* expand_root, then choose_move of a new MinimaxPlayer of some depth
SearchChoose ==
    /\ last.op # "choose_move"
    /\ winner(tree.root) = None
    /\ free(tree.root) <= MaxFree
    /\ \E depth \in SearchDepths :
          \E chosen \in {choose_move(expand_root(tree), empty_memo, depth)} :
              /\ tree' = chosen.tree
              /\ memoize' = chosen.memo
              /\ last' = [no_op EXCEPT !.op = "choose_move", !.state = chosen.move,
                                       !.depth = depth]
    /\ UNCHANGED <<game, legal_only, ply>>

SearchNext == SearchAdvance \/ SearchChoose

SpecSearch == SearchInit /\ [][SearchNext]_vars

-----------------------------------------------------------------------------
(* SpecGame: Game.play_game between two players, each a RandomPlayer or a  *)
(* MinimaxPlayer of some depth.  Of Game.history, which change_state       *)
(* appends every new state to and nothing reads, the first entry, the last *)
(* entry and the length are kept.                                          *)

GameStarts == {ttt_init, RevLate2}

Players(s) == {RandomPlayer(s)} \cup {MinimaxPlayer(s, depth) : depth \in SearchDepths}

\* Game(player1, player2, game_state)
GameInit ==
    /\ \E s \in GameStarts :
          \E p1 \in Players(s), p2 \in Players(s) :
              game = [game_state |-> s, player |-> IF s.turn THEN 0 ELSE 1,
                      previous_state |-> <<>>, player1 |-> p1, player2 |-> p2,
                      history |-> new_history(s)]
    /\ tree = new_tree("GameTree", ttt_init)
    /\ memoize = empty_memo
    /\ last = no_op
    /\ legal_only = TRUE
    /\ ply = 0

\* one turn of the loop of play_game, player 1 to move
Player1Move ==
    /\ winner(game.game_state) = None
    /\ game.player = 0
    /\ \E pick \in picks(game.player1, game.previous_state) :
          \E done \in {player_make_move(game.player1, game.previous_state, pick)} :
              /\ game' = [game EXCEPT !.player1 = done.player, !.player = 1,
                                      !.game_state = done.move,
                                      !.history = history_append(@, done.move),
                                      !.previous_state = <<done.move>>]
              /\ last' = [no_op EXCEPT !.op = "player1.make_move", !.state = done.move,
                                       !.depth = game.player1.depth,
                                       !.values = done.values]
    /\ ply' = ply + 1
    /\ UNCHANGED <<tree, memoize, legal_only>>

\* one turn of the loop of play_game, player 2 to move
Player2Move ==
    /\ winner(game.game_state) = None
    /\ game.player = 1
    /\ \E pick \in picks(game.player2, game.previous_state) :
          \E done \in {player_make_move(game.player2, game.previous_state, pick)} :
              /\ game' = [game EXCEPT !.player2 = done.player, !.player = 0,
                                      !.game_state = done.move,
                                      !.history = history_append(@, done.move),
                                      !.previous_state = <<done.move>>]
              /\ last' = [no_op EXCEPT !.op = "player2.make_move", !.state = done.move,
                                       !.depth = game.player2.depth,
                                       !.values = done.values]
    /\ ply' = ply + 1
    /\ UNCHANGED <<tree, memoize, legal_only>>

GameNext == Player1Move \/ Player2Move

SpecGame == GameInit /\ [][GameNext]_vars

-----------------------------------------------------------------------------
(* SpecMCTS: one choose_move of a Monte Carlo player, the passes of the    *)
(* loop of find_value one by one (ply counts them), and copy().            *)

\* state.copy(): the constructor given the state copies its fields
state_copy(s) ==
    CASE s.game = "TicTacToe" ->
            [game |-> s.game, board |-> s.board, turn |-> s.turn,
             previous_move |-> s.previous_move]
      [] s.game = "ConnectFour" ->
            [game |-> s.game, n |-> s.n, board |-> s.board, turn |-> s.turn,
             previous_move |-> s.previous_move]
      [] s.game = "Reversi" ->
            [game |-> s.game, n |-> s.n, board |-> s.board, turn |-> s.turn,
             previous_move |-> s.previous_move, has_passed |-> s.has_passed]

\* copy() of a tree: MonteCarloSimulationGameTree.copy and MonteCarloNeuralNetwork.copy
\* make a node from the root, repeat and value and copy the children;
\* MinimaxGameTree.copy makes a node from the root and the value
RECURSIVE copy(_)
copy(self) ==
    IF self.cls = "MinimaxGameTree"
    THEN [new_tree(self.cls, state_copy(self.root)) EXCEPT !.value = self.value]
    ELSE [new_tree(self.cls, state_copy(self.root)) EXCEPT
             !.repeat = self.repeat,
             !.value = self.value,
             !.children = [k \in 1..Len(self.children) |-> copy(self.children[k])]]

\* tic-tac-toe after four moves: X X O / - O - / - - -, player 1 to move
TTTMid ==
    play_moves(ttt_init, <<<<0, 0>>, <<1, 1>>, <<0, 1>>, <<0, 2>>>>)

MonteCarloClasses == {"MonteCarloSimulationGameTree", "MonteCarloNeuralNetwork"}

\* late positions with player 1 to move, and one with player 2 to move
MonteCarloStarts == {TTTLate, C4Late, RevPass, play_moves(TTTMid, <<<<2, 0>>>>)}

\* MonteCarloSimulationPlayer(start_state, repeat=repeat) and
\* MonteCarloNeuralNetworkPlayer(start_state, neural_network, repeat=repeat)
MonteCarloInit ==
    /\ \E cls \in MonteCarloClasses, s \in MonteCarloStarts, repeat \in 1..MaxRepeat :
          tree = [new_tree(cls, s) EXCEPT !.repeat = repeat]
    /\ memoize = empty_memo
    /\ game = no_game
    /\ last = no_op
    /\ legal_only = TRUE
    /\ ply = 0

\* Player.make_move expands the root before it calls choose_move
MonteCarloExpandRoot ==
    /\ last.op = "init"
    /\ tree.children = <<>>
    /\ tree' = expand_root(tree)
    /\ last' = [no_op EXCEPT !.op = "expand_root", !.before = tree]
    /\ UNCHANGED <<memoize, game, legal_only, ply>>

\* one pass of the loop of find_value, which choose_move runs first
MonteCarloTreeSearch ==
    /\ last.op \in {"init", "expand_root", "monte_carlo_tree_search"}
    /\ ~last.raised
    /\ ply < tree.repeat
    /\ \E pick \in leaf_picks(tree) :
          \E outcome \in leaf_outcomes(tree, pick) :
              \E done \in {monte_carlo_tree_search(tree, pick, outcome)} :
                  /\ tree' = done.tree
                  /\ last' = [no_op EXCEPT !.op = "monte_carlo_tree_search",
                                           !.before = tree,
                                           !.raised = done.raised,
                                           !.matches = done.returned,
                                           !.evaluations = done.evaluations,
                                           !.values = <<pick, outcome>>,
                                           !.predictions =
                                               IF done.evaluations = 0 THEN 0
                                               ELSE predict_calls(leaf_evaluated(tree, pick))]
    /\ ply' = ply + 1
    /\ UNCHANGED <<memoize, game, legal_only>>

\* the rest of choose_move, once find_value is through: the best child's root
MonteCarloChooseMove ==
    /\ last.op = "monte_carlo_tree_search"
    /\ ~last.raised
    /\ ply = tree.repeat
    /\ tree.children # <<>>
    /\ last' = [no_op EXCEPT !.op = "choose_move",
                             !.state = tree.children[best_child(tree)].root,
                             !.matches = best_child(tree),
                             !.before = tree]
    /\ UNCHANGED <<tree, memoize, game, legal_only, ply>>

\* game_tree.copy(), as the player's copy() calls it
MonteCarloCopy ==
    /\ last.op \in {"expand_root", "monte_carlo_tree_search"}
    /\ ~last.raised
    /\ tree' = copy(tree)
    /\ last' = [no_op EXCEPT !.op = "copy", !.before = tree]
    /\ UNCHANGED <<memoize, game, legal_only, ply>>

MonteCarloNext ==
    \/ MonteCarloExpandRoot
    \/ MonteCarloTreeSearch
    \/ MonteCarloChooseMove
    \/ MonteCarloCopy

SpecMCTS == MonteCarloInit /\ [][MonteCarloNext]_vars

-----------------------------------------------------------------------------
(* SpecPair: two positions reached by legal play from the same position,   *)
(* the root of a game tree and the state of a game.                        *)

PairStarts == {TTTMid, C4Late, RevLate}

PairInit ==
    /\ \E s \in PairStarts :
          /\ tree = new_tree("GameTree", s)
          /\ game = [no_game EXCEPT !.game_state = s, !.history = new_history(s)]
    /\ memoize = empty_memo
    /\ last = no_op
    /\ legal_only = TRUE
    /\ ply = 0

\* game_tree.expand_root() and game_tree.make_move(state) for a legal successor
PairAdvanceTree ==
    /\ \E k \in 1..Len(legal_moves(tree.root)) :
          /\ tree' = make_move(expand_root(tree), legal_moves(tree.root)[k]).tree
          /\ last' = [no_op EXCEPT !.op = "make_move", !.state = legal_moves(tree.root)[k]]
    /\ ply' = ply + 1
    /\ UNCHANGED <<memoize, game, legal_only>>

\* game.change_state(new_state) for a legal successor
PairChangeState ==
    /\ \E k \in 1..Len(legal_moves(game.game_state)) :
          /\ game' = [game EXCEPT !.game_state = legal_moves(game.game_state)[k],
                                  !.history =
                                      history_append(@, legal_moves(game.game_state)[k]),
                                  !.previous_state = <<legal_moves(game.game_state)[k]>>]
          /\ last' = [no_op EXCEPT !.op = "change_state",
                                   !.state = legal_moves(game.game_state)[k]]
    /\ ply' = ply + 1
    /\ UNCHANGED <<tree, memoize, legal_only>>

PairNext == PairAdvanceTree \/ PairChangeState

SpecPair == PairInit /\ [][PairNext]_vars

-----------------------------------------------------------------------------
(* The properties.                                                         *)

\* the children of a node are the legal moves of its root, one each, in their order
children_are_legal_moves(node) ==
    node.children # <<>> =>
        [k \in 1..Len(node.children) |-> node.children[k].root] = legal_moves(node.root)

\* C1: as long as advance was only called with legal successors of the root, every
\* node of the tree that has children has exactly the legal moves of its root as the
\* roots of its children, one child per legal move, in the order of legal_moves()
C1_ChildrenAreAllLegalMoves ==
    legal_only => \A p \in paths(tree) : children_are_legal_moves(node_at(tree, p))

\* C1 happens: a legal advance has promoted a child that had been expanded two levels
C1_Witness ==
    /\ legal_only
    /\ last.op = "make_move" /\ ~last.raised
    /\ \E k \in 1..Len(tree.children) : tree.children[k].children # <<>>

\* the node an expand operation was aimed at
expand_target(op) == IF op.op = "expand_root" THEN <<>> ELSE op.target

\* C2: expand_root, or expand_tree on the root of any node, leaves the children of a
\* node that has children unchanged (the same nodes, subtrees and values), and a
\* second call in a row changes nothing the first call did not
C2_ExpandIsIdempotent ==
    [][(last'.op \in {"expand_root", "expand_tree"} /\ last'.target # NotInTree) =>
          LET target == expand_target(last')
          IN  /\ node_at(tree, target).children # <<>> => tree' = tree
              /\ expand_tree(tree', target) = tree']_vars

\* C2 happens: expand_root was called on a searched minimax root whose children have
\* values and subtrees
C2_Witness ==
    /\ last.op = "expand_root" /\ last.before > 0
    /\ tree.cls = "MinimaxGameTree"
    /\ \E k \in 1..Len(tree.children) :
          tree.children[k].value # NoValue /\ tree.children[k].children # <<>>

\* C3: advance with a state whose previous_move is that of a child c of the root
\* leaves exactly c in place of the tree: c's children and subtrees, c's position as
\* the root, and c's value (and visits)
C3_AdvancePromotesChild ==
    [][(last'.op = "make_move" /\ matches(tree.children, last'.state) > 0) =>
          LET c == tree.children[matching_child(tree.children, last'.state, 1)]
          IN  /\ tree'.children = c.children
              /\ tree'.root = c.root
              /\ tree.cls = "MinimaxGameTree" => tree'.value = c.value
              /\ tree.cls = "MonteCarloSimulationGameTree" =>
                    tree'.value = c.value /\ tree'.visits = c.visits]_vars

\* C4: advance with a state whose previous_move is that of no child of the root
\* raises MoveNotLegalError and leaves the tree as it was
C4_AdvanceRaisesAndKeepsTree ==
    [][(last'.op = "make_move" /\ matches(tree.children, last'.state) = 0) =>
          last'.raised /\ tree' = tree]_vars

\* C4 happens: advance has raised on a minimax tree whose root has children and a value
C4_Witness ==
    /\ last.op = "make_move" /\ last.raised /\ last.matches = 0
    /\ tree.cls = "MinimaxGameTree"
    /\ tree.children # <<>>
    /\ tree.value # NoValue

\* the previous_move values of the children are pairwise distinct
distinct_previous_moves(children) ==
    \A j, k \in 1..Len(children) :
        j # k => children[j].root.previous_move # children[k].root.previous_move

\* C5: in the three games, the children of an expanded root have pairwise distinct
\* previous_move values, and advance with a legal successor matches exactly one
\* child, whose state is the successor, and does not raise
C5_ExactlyOneMatchingChild ==
    [][/\ distinct_previous_moves(tree.children)
       /\ distinct_previous_moves(tree'.children)
       /\ last'.op = "make_move" =>
             /\ matches(tree.children, last'.state) = 1
             /\ ~last'.raised
             /\ tree.children[matching_child(tree.children, last'.state, 1)].root
                   = last'.state]_vars

\* C5 happens: advance was called with the successor of a Reversi state that is a pass
C5_Witness ==
    /\ last.op = "make_move" /\ last.matches = 1
    /\ tree.root.game = "Reversi"
    /\ tree.root.has_passed

\* the greatest and the least of a set of numbers
max_of(values) == CHOOSE v \in values : \A w \in values : v >= w
min_of(values) == CHOOSE v \in values : \A w \in values : v <= w

\* depth-limited minimax without pruning and without a memo table
RECURSIVE minimax(_, _)
minimax(state, depth) ==
    IF depth = 0 \/ winner(state) # None
    THEN evaluate_position(state, 0)
    ELSE LET successors == legal_moves(state)
             values == {minimax(successors[k], depth - 1) : k \in 1..Len(successors)}
         IN  IF state.turn THEN max_of(values) ELSE min_of(values)

\* the number of the child move selection takes: the first of those of the best value
selected(turn, values) ==
    LET range == {values[k] : k \in 1..Len(values)}
        best_value == IF turn THEN max_of(range) ELSE min_of(range)
    IN  CHOOSE k \in 1..Len(values) :
            values[k] = best_value /\ \A j \in 1..(k - 1) : values[j] # best_value

\* C6: after choose_move with an empty memo table, at any depth, every child of the
\* root has the value plain minimax gives it, and the move returned is the one
\* selected over the plain minimax values
C6_AlphaBetaEqualsMinimax ==
    last.op = "choose_move" =>
        LET plain == [k \in 1..Len(tree.children) |->
                         minimax(tree.children[k].root, last.depth)]
        IN  /\ child_values(tree) = plain
            /\ last.state = tree.children[selected(tree.root.turn, plain)].root

\* the player that has just moved, as it was before the move
mover(g, op) == IF op.op = "player1.make_move" THEN g.player1 ELSE g.player2

\* C7: a MinimaxPlayer's choose_move, with the memo table it has accumulated in the
\* game, returns the move and gives the children of the root the values that
\* choose_move with an empty table gives on the same position at the same depth
C7_MemoDoesNotChangeResult ==
    [][(last'.op \in {"player1.make_move", "player2.make_move"}
          /\ mover(game, last').cls = "MinimaxPlayer") =>
          \A fresh \in {choose_move(tree_to_choose(mover(game, last'),
                                                   game.previous_state).tree,
                                    empty_memo, mover(game, last').depth)} :
              /\ fresh.move = last'.state
              /\ child_values(fresh.tree) = last'.values]_vars

\* C8: the move choose_move returns is the root of the first child of the greatest
\* value when player 1 is to move, of the least value when player 2 is
C8_SelectionIsTurnAware ==
    last.op = "choose_move" =>
        last.state = tree.children[selected(tree.root.turn, child_values(tree))].root

\* C8 happens: player 2 is to move, several children have the least value, and the
\* first of them is not the first child
C8_Witness ==
    /\ last.op = "choose_move"
    /\ ~tree.root.turn
    /\ selected(FALSE, child_values(tree)) > 1
    /\ Cardinality({k \in 1..Len(tree.children) :
                       tree.children[k].value
                           = tree.children[selected(FALSE, child_values(tree))].value}) > 1

\* both players of the game are MinimaxPlayers of depth -1
both_unbounded(g) ==
    /\ g.player1.cls = "MinimaxPlayer" /\ g.player1.depth = -1
    /\ g.player2.cls = "MinimaxPlayer" /\ g.player2.depth = -1

\* C9: a tic-tac-toe game from the empty board between two MinimaxPlayers of depth -1
\* is a draw when it is over
C9_UnboundedMinimaxDraws ==
    (/\ game.game_state.game = "TicTacToe"
     /\ both_unbounded(game)
     /\ winner(game.game_state) # None) => winner(game.game_state) = <<FALSE, FALSE>>

\* C9 happens: such a game has been played to its end
C9_Witness ==
    /\ game.game_state.game = "TicTacToe"
    /\ both_unbounded(game)
    /\ ply > 0
    /\ winner(game.game_state) = <<FALSE, FALSE>>

\* player 1 is to move in tic-tac-toe and some move wins at once
immediate_win(node) ==
    /\ node.root.game = "TicTacToe"
    /\ node.root.turn
    /\ \E k \in 1..Len(node.children) : winner(node.children[k].root) = <<TRUE, TRUE>>

\* the value of the child of the root whose state is the move returned
chosen_value(node, move) ==
    node.children[CHOOSE k \in 1..Len(node.children) : node.children[k].root = move].value

\* C10 as stated: where player 1 can win tic-tac-toe at once, choose_move of any
\* depth >= 1 returns a won position, of value +1
C10_ImmediateWinIsChosen ==
    (last.op = "choose_move" /\ last.depth >= 1 /\ immediate_win(tree)) =>
        /\ winner(last.state) = <<TRUE, TRUE>>
        /\ chosen_value(tree, last.state) = 1

\* C10: where player 1 can win tic-tac-toe at once, choose_move of any depth >= 1
\* returns a child of value +1, and choose_move of depth 1 returns a won position
C10_ImmediateWinHasValueOne ==
    (last.op = "choose_move" /\ last.depth >= 1 /\ immediate_win(tree)) =>
        /\ chosen_value(tree, last.state) = 1
        /\ last.depth = 1 => winner(last.state) = <<TRUE, TRUE>>

\* C10 happens: choose_move of depth 1 has returned a winning move that is not the
\* first child
C10_Witness ==
    /\ last.op = "choose_move" /\ last.depth = 1 /\ immediate_win(tree)
    /\ winner(last.state) = <<TRUE, TRUE>>
    /\ winner(tree.children[1].root) = None

\* the node is a rollout-variant tree that a search has worked on, not a copy
searched_by_rollouts ==
    tree.cls = "MonteCarloSimulationGameTree" /\ last.op # "copy"

\* C11: in a rollout-variant tree, after any number of searches from a fresh tree, every
\* node has visits >= 1 and 0 <= value <= visits (value being counted in halves here,
\* 0 <= value <= 2 * visits), so value / visits is defined and lies in [0, 1]
C11_ValueWithinVisits ==
    searched_by_rollouts =>
        \A p \in paths(tree) :
            /\ node_at(tree, p).visits >= 1
            /\ 0 <= node_at(tree, p).value
            /\ node_at(tree, p).value <= 2 * node_at(tree, p).visits

\* C11 happens: three searches have run and a node two levels down has won a reward
C11_Witness ==
    /\ searched_by_rollouts
    /\ ply >= 3
    /\ \E p \in paths(tree) :
          Len(p) = 2 /\ node_at(tree, p).value > 0 /\ node_at(tree, p).visits >= 2

\* child number k has a higher average than child number j
higher_average(node, k, j) ==
    node.children[k].value * node.children[j].visits
        > node.children[j].value * node.children[k].visits

\* C12: after the search, choose_move returns the root of the child with the highest
\* value / visits among the children with visits > 0, the earliest of them when
\* several share the highest average
C12_HighestAverageEarliest ==
    last.op = "choose_move" =>
        /\ last.state = tree.children[last.matches].root
        /\ tree.children[last.matches].visits > 0
        /\ \A j \in 1..Len(tree.children) :
              tree.children[j].visits > 0 =>
                  /\ ~higher_average(tree, j, last.matches)
                  /\ j < last.matches => higher_average(tree, last.matches, j)

\* C12 happens: the child returned has won rewards, and a later child has the same
\* average
C12_Witness ==
    /\ last.op = "choose_move"
    /\ tree.children[last.matches].value > 0
    /\ \E j \in (last.matches + 1)..Len(tree.children) :
          /\ ~higher_average(tree, j, last.matches)
          /\ ~higher_average(tree, last.matches, j)

\* C13: every monte_carlo_tree_search on the root of a rollout-variant tree calls
\* move_value exactly once; and with repeat = 1 and a root that has one legal move,
\* choose_move returns that move, the child having been visited once, its value the
\* reward of that one rollout
C13_OneRolloutPerSearch ==
    /\ (last.op = "monte_carlo_tree_search" /\ searched_by_rollouts) =>
           last.evaluations = 1
    /\ (/\ last.op = "choose_move" /\ searched_by_rollouts
        /\ tree.repeat = 1 /\ Len(legal_moves(tree.root)) = 1) =>
           /\ last.state = legal_moves(tree.root)[1]
           /\ tree.children[1].visits = 2
           /\ tree.children[1].value \in {0, 1, 2}
           /\ tree.visits = 2

\* C13 happens: a player with repeat = 1 has chosen the only move of its root
C13_Witness ==
    /\ last.op = "choose_move" /\ searched_by_rollouts
    /\ tree.repeat = 1 /\ Len(legal_moves(tree.root)) = 1
    /\ last.state = legal_moves(tree.root)[1]


\* the two trees have the same nodes, with the same states, values and visits
same_tree(original, clone) ==
    /\ paths(original) = paths(clone)
    /\ \A p \in paths(original) \cap paths(clone) :
          /\ node_at(clone, p).root = node_at(original, p).root
          /\ node_at(clone, p).value = node_at(original, p).value
          /\ node_at(clone, p).visits = node_at(original, p).visits

\* C14: copy() of a search tree is a full clone: the copy has an equal root state, the
\* same children at every depth, and at every node the value and the visits of the
\* original
C14_CopyIsFullClone ==
    last.op = "copy" => same_tree(last.before, tree)


\* a tree without its counters: the states and the shape
RECURSIVE without_counters(_)
without_counters(node) ==
    [root |-> node.root,
     children |-> [k \in 1..Len(node.children) |-> without_counters(node.children[k])]]

pass_bookkeeping(s) == IF s.game = "Reversi" THEN s.has_passed ELSE FALSE

\* the fingerprints of the legal successors of a state
successor_strs(s) == [k \in 1..Len(legal_moves(s)) |-> str(legal_moves(s)[k])]

\* C16: two states reached by legal play that have the same __str__ string have the same
\* board, the same side to move and the same pass bookkeeping, hence the same legal
\* successors and the same minimax value
C16_FingerprintIsUnique ==
    str(tree.root) = str(game.game_state) =>
        /\ tree.root.board = game.game_state.board
        /\ tree.root.turn = game.game_state.turn
        /\ pass_bookkeeping(tree.root) = pass_bookkeeping(game.game_state)
        /\ successor_strs(tree.root) = successor_strs(game.game_state)
        /\ minimax(tree.root, -1) = minimax(game.game_state, -1)


\* C17: evaluate_position returns a value in [-1, 1] at every reachable state, for
\* heuristic 0 of every game and heuristic 1 of Reversi; heuristic 0 is +1 when winner()
\* is (True, True), -1 when it is (True, False), 0 for a tie and before the game is over
C17_EvaluationWithinRange ==
    /\ evaluate_position(tree.root, 0) \in {-1, 0, 1}
    /\ evaluate_position(tree.root, 0)
           = (IF winner(tree.root) = <<TRUE, TRUE>> THEN 1
              ELSE IF winner(tree.root) = <<TRUE, FALSE>> THEN -1
              ELSE 0)
    /\ tree.root.game = "Reversi" =>
           /\ -evaluate_position(tree.root, 1)[2] <= evaluate_position(tree.root, 1)[1]
           /\ evaluate_position(tree.root, 1)[1] <= evaluate_position(tree.root, 1)[2]


\* C18: the learned-evaluator variant runs the loop of the rollout variant: on a root
\* that is not terminal and has its children, no search of choose_move raises, and
\* choose_move returns the root state of one of the root's children
C18_LearnedVariantCompletes ==
    (tree.cls = "MonteCarloNeuralNetwork" /\ winner(tree.root) = None) =>
        /\ last.op = "monte_carlo_tree_search" => ~last.raised
        /\ last.op = "choose_move" =>
               \E k \in 1..Len(tree.children) : last.state = tree.children[k].root


\* what the claim says of a node that find_value was called on with depth, alpha and
\* beta: unless the node is a leaf of the search, the table holds the node's value
\* under the key of the arguments the call received, and so down the children that
\* the loop reached, each with the window the loop had when it came to it
RECURSIVE kept_under_received_key(_, _, _, _, _)
RECURSIVE kept_by_children(_, _, _, _, _, _)
kept_by_children(node, table, depth, alpha, beta, k) ==
    IF k > Len(node.children) THEN TRUE
    ELSE /\ kept_under_received_key(node.children[k], table, depth - 1, alpha, beta)
         /\ \A new_alpha \in {IF node.root.turn THEN Max(alpha, node.children[k].value)
                              ELSE alpha} :
            \A new_beta \in {IF node.root.turn THEN beta
                             ELSE Min(beta, node.children[k].value)} :
                \/ new_alpha >= new_beta
                \/ kept_by_children(node, table, depth, new_alpha, new_beta, k + 1)

kept_under_received_key(node, table, depth, alpha, beta) ==
    \/ depth = 0
    \/ winner(node.root) # None
    \/ /\ <<IF depth < 0 THEN -1 ELSE depth, str(node.root), alpha, beta>> \in DOMAIN table
       /\ table[<<IF depth < 0 THEN -1 ELSE depth, str(node.root), alpha, beta>>] = node.value
       /\ kept_by_children(node, table, depth, alpha, beta, 1)

\* C19: the table of find_value is keyed by (depth, fingerprint, alpha, beta): after
\* choose_move, every key of a search of negative depth has the depth -1 and every key
\* of a search of depth d a depth of 1..d, and every node that was looked up or
\* computed has its value in the table under the key made of the alpha and beta its
\* call received, not of the alpha and beta the loop over its children ended with
C19_MemoKeyedByWindow ==
    last.op = "choose_move" =>
        /\ \A key \in DOMAIN memoize :
               IF last.depth < 0 THEN key[1] = -1 ELSE key[1] \in 1..last.depth
        /\ \A k \in 1..Len(tree.children) :
               kept_under_received_key(tree.children[k], memoize, last.depth, NegInf, Inf)

\* a full search that went three levels down, was called with a narrowed window, and
\* left one position in the table under two windows with two values
C19_Witness ==
    /\ last.op = "choose_move"
    /\ last.depth = -1
    /\ \E k \in 1..Len(tree.children) :
          \E j \in 1..Len(tree.children[k].children) :
              tree.children[k].children[j].children # <<>>
    /\ \E key \in DOMAIN memoize : \E other \in DOMAIN memoize :
          /\ key[2] = other[2]
          /\ key[3] # other[3] \/ key[4] # other[4]
          /\ memoize[key] # memoize[other]


\* C20: a node that find_value reaches with depth 0 or with a terminal state gets the
\* static evaluation of its state as its value, and the table holds an entry under
\* the node's key afterwards: after choose_move, so it is for every child of the root
\* that is such a node
C20_LeafValueIsStored ==
    last.op = "choose_move" =>
        \A k \in 1..Len(tree.children) :
            (last.depth = 0 \/ winner(tree.children[k].root) # None) =>
                /\ tree.children[k].value = evaluate_position(tree.children[k].root, 0)
                /\ memo_key(tree.children[k], last.depth, NegInf, Inf) \in DOMAIN memoize


\* what the claim says of a node that find_value has expanded, called with depth and
\* the window received_alpha, received_beta, at child k of its loop with the running
\* alpha and beta: at a cutoff the value is the bound of the other side, the later children are
\* as they were made and the table holds the value; with no cutoff the value is the
\* running bound of the side to move
RECURSIVE cuts_off_fail_hard(_, _, _, _, _)
RECURSIVE loop_cuts_off_fail_hard(_, _, _, _, _, _, _, _)
loop_cuts_off_fail_hard(node, table, depth, received_alpha, received_beta, alpha, beta, k) ==
    IF k > Len(node.children)
    THEN node.value = IF node.root.turn THEN alpha ELSE beta
    ELSE /\ cuts_off_fail_hard(node.children[k], table, depth - 1, alpha, beta)
         /\ \A new_alpha \in {IF node.root.turn THEN Max(alpha, node.children[k].value)
                              ELSE alpha} :
            \A new_beta \in {IF node.root.turn THEN beta
                             ELSE Min(beta, node.children[k].value)} :
                IF new_alpha >= new_beta
                THEN /\ node.value = IF node.root.turn THEN received_beta ELSE received_alpha
                     /\ \A j \in (k + 1)..Len(node.children) :
                            node.children[j] = child_tree(node, node.children[j].root)
                     /\ \A key \in {<<IF depth < 0 THEN -1 ELSE depth, str(node.root),
                                       received_alpha, received_beta>>} :
                            key \in DOMAIN table /\ table[key] = node.value
                ELSE loop_cuts_off_fail_hard(node, table, depth, received_alpha,
                                             received_beta, new_alpha, new_beta, k + 1)

cuts_off_fail_hard(node, table, depth, alpha, beta) ==
    \/ node.children = <<>>
    \/ loop_cuts_off_fail_hard(node, table, depth, alpha, beta, alpha, beta, 1)

\* C21: the cutoff of find_value is fail-hard: after choose_move, every node that was
\* computed and whose loop came to alpha >= beta has the bound it received as its value
\* (beta when maximizing, alpha when minimizing), its later children neither expanded
\* nor evaluated, and that value in the table; a node whose loop ran to its end has the
\* final alpha (maximizing) or beta (minimizing)
C21_CutoffIsFailHard ==
    last.op = "choose_move" =>
        \A k \in 1..Len(tree.children) :
            cuts_off_fail_hard(tree.children[k], memoize, last.depth, NegInf, Inf)

\* a node below the root whose loop was cut off before its last child by a child whose
\* value is beyond the bound: a maximizing node of value beta with a child above beta,
\* or a minimizing node of value alpha with a child below alpha
C21_Witness ==
    /\ last.op = "choose_move"
    /\ \E k \in 1..Len(tree.children) :
          \E j \in 1..Len(tree.children[k].children) :
              \E node \in {tree.children[k].children[j]} :
                  \E c \in 1..(Len(node.children) - 1) :
                      /\ node.children[c].value # NoValue
                      /\ node.children[c + 1].value = NoValue
                      /\ IF node.root.turn THEN node.children[c].value > node.value
                         ELSE node.children[c].value < node.value


\* what the claim says of a node with depth plies of search left: a node that find_value
\* was not called on is not expanded; a terminal node is not expanded; a node that is
\* not terminal is, with no plies left, evaluated statically and not expanded, and
\* otherwise expanded or given a value that the table holds for its depth and position
RECURSIVE searched_to_depth(_, _, _)
searched_to_depth(node, table, depth) ==
    IF node.value = NoValue \/ winner(node.root) # None
    THEN node.children = <<>>
    ELSE IF depth = 0
    THEN node.children = <<>> /\ node.value = evaluate_position(node.root, 0)
    ELSE /\ \/ node.children # <<>>
            \/ \E key \in DOMAIN table :
                  /\ key[1] = (IF depth < 0 THEN -1 ELSE depth)
                  /\ key[2] = str(node.root)
                  /\ table[key] = node.value
         /\ \A k \in 1..Len(node.children) :
                searched_to_depth(node.children[k], table, depth - 1)

\* C22: find_value called with a depth d >= 0 evaluates statically the nodes it reaches
\* d plies below that are not terminal and expands no node d or more plies below;
\* called with a negative depth it stops at no node that is not terminal: after
\* choose_move, so it is below every child of the root
C22_DepthIsRecursionFloor ==
    last.op = "choose_move" =>
        \A k \in 1..Len(tree.children) :
            searched_to_depth(tree.children[k], memoize, last.depth)

\* a search of depth 2 that reached a position two plies below a child of the root
\* that is not terminal, and a full search that went on below such a position
C22_Witness ==
    /\ last.op = "choose_move"
    /\ \E k \in 1..Len(tree.children) :
          \E j \in 1..Len(tree.children[k].children) :
              \E node \in {tree.children[k].children[j]} :
                  \E c \in 1..Len(node.children) :
                      /\ winner(node.children[c].root) = None
                      /\ node.children[c].value # NoValue
                      /\ \/ last.depth = 2 /\ node.children[c].children = <<>>
                         \/ last.depth = -1 /\ node.children[c].children # <<>>


\* C28: for every state reached by legal play, of the root of the tree and of the game,
\* legal_moves() is empty if and only if winner() is not None, so the root once
\* expanded has no children exactly when its state is terminal
C28_NoChildrenIffTerminal ==
    /\ \A s \in {tree.root, game.game_state} :
           (legal_moves(s) = <<>>) <=> (winner(s) # None)
    /\ (expand_root(tree).children = <<>>) <=> (winner(tree.root) # None)

\* the tree was advanced into a full board that nobody has won: a terminal state that
\* no test for a line finds
C28_Witness ==
    /\ last.op = "make_move"
    /\ tree.root.game # "Reversi"
    /\ winner(tree.root) = <<FALSE, FALSE>>
    /\ expand_root(tree).children = <<>>


\* C24: select_child called on a node that has a child which no search has come to yet
\* returns such a child: a search from a root that has children and, among them, one
\* that was never selected, goes into a child that was never selected
C24_UnvisitedChildIsSelectedFirst ==
    (/\ last.op = "monte_carlo_tree_search" /\ ~last.raised
     /\ last.before.children # <<>>
     /\ \E j \in 1..Len(last.before.children) : last.before.children[j].visits = 1) =>
        \A k \in 1..Len(tree.children) :
            tree.children[k] # last.before.children[k] =>
                last.before.children[k].visits = 1


\* a search of the rollout variant from a root that was a leaf and has legal moves: it
\* has picked the child number last.values[1] and played the random game from it that
\* the winner last.values[2] has won
simulated_a_child ==
    /\ last.op = "monte_carlo_tree_search" /\ ~last.raised
    /\ tree.cls = "MonteCarloSimulationGameTree"
    /\ last.before.children = <<>>
    /\ tree.children # <<>>

RECURSIVE on_search_path(_, _, _)
on_search_path(before, after, reward) ==
    /\ reward \in {0, 1, 2}
    /\ after = [before EXCEPT !.value = @ + reward, !.visits = @ + 1,
                              !.children = after.children]
    /\ IF before.children # <<>>
       THEN /\ Len(after.children) = Len(before.children)
            /\ \E k \in 1..Len(after.children) :
                  /\ on_search_path(before.children[k], after.children[k], 2 - reward)
                  /\ \A j \in 1..Len(after.children) :
                         j # k => after.children[j] = before.children[j]
       ELSE \/ after.children = <<>>
            \/ \E k \in 1..Len(after.children) :
                  /\ after.children[k] =
                         [child_tree(before, after.children[k].root)
                             EXCEPT !.value = 2 - reward, !.visits = 2]
                  /\ \A j \in 1..Len(after.children) :
                         j # k => after.children[j] =
                                      child_tree(before, after.children[j].root)

\* C26: one monte_carlo_tree_search from the root adds one visit and a reward of 0, 0.5
\* or 1 to every node of the path from the root to the node that was simulated, the
\* rewards of two nodes that follow each other on the path add up to 1, and no node
\* off the path changes its value or its visits
C26_BackpropagationAlongPath ==
    (last.op = "monte_carlo_tree_search" /\ ~last.raised) =>
        \E reward \in {0, 1, 2} : on_search_path(last.before, tree, reward)

\* a search that went from the root through a child it selected to a leaf, expanded it
\* and simulated one of its children: a path of four nodes, with a decided playout
C26_Witness ==
    /\ last.op = "monte_carlo_tree_search" /\ ~last.raised
    /\ last.before.children # <<>>
    /\ \E k \in 1..Len(tree.children) :
          /\ last.before.children[k].children # <<>>
          /\ \E j \in 1..Len(tree.children[k].children) :
                /\ last.before.children[k].children[j].children = <<>>
                /\ \E c \in 1..Len(tree.children[k].children[j].children) :
                      /\ tree.children[k].children[j].children[c].visits = 2
                      /\ tree.children[k].children[j].children[c].value # 1


\* a search of the learned-evaluator variant from a root that was a leaf and has legal
\* moves: it has picked the child number last.values[1] and called its move_value, to
\* which the network, if asked, has answered last.values[2]
evaluated_a_child ==
    /\ last.op = "monte_carlo_tree_search" /\ ~last.raised
    /\ tree.cls = "MonteCarloNeuralNetwork"
    /\ last.before.children = <<>>
    /\ tree.children # <<>>

\* C27: move_value of the learned-evaluator variant never asks the network on a
\* terminal state and returns the reward of the outcome there: 1 if the side that
\* moved into the node has won, 0 if it has lost, 0.5 for a tie; on any other state it
\* asks the network exactly once and returns the prediction brought into [0, 1], seen
\* from the player who moved into the node
C27_TerminalIsExactElsePredicted ==
    evaluated_a_child =>
        \A node \in {tree.children[last.values[1]]} :
            IF winner(node.root) # None
            THEN /\ last.predictions = 0
                 /\ node.value = IF ~winner(node.root)[1] THEN 1
                                 ELSE IF winner(node.root)[2] # node.root.turn THEN 2
                                 ELSE 0
            ELSE /\ last.predictions = 1
                 /\ node.value = IF node.root.turn THEN 2 - (last.values[2] + 1)
                                 ELSE last.values[2] + 1
                 /\ node.value \in {0, 1, 2}

\* the network's variant has evaluated a terminal child that one side has won
C27_Witness ==
    /\ evaluated_a_child
    /\ winner(tree.children[last.values[1]].root) # None
    /\ winner(tree.children[last.values[1]].root)[1]


\* C29: in play_game the players take turns, player 1 first when the turn of the start
\* state is True; at every call of Player.make_move the opponent's move is found among
\* the children of the player's root, so that MoveNotLegalError is not raised, the
\* move returned is a legal successor of the state of the game, and the root of the
\* player's tree is the new state of the game afterwards
C29_PlayersStaySynchronized ==
    [][winner(game.game_state) = None =>
          /\ game'.player = 1 - game.player
          /\ ply = 0 => game.player = (IF game.game_state.turn THEN 0 ELSE 1)
          /\ \A before \in {IF game.player = 0 THEN game.player1 ELSE game.player2} :
             \A after \in {IF game.player = 0 THEN game'.player1 ELSE game'.player2} :
                 /\ ~tree_to_choose(before, game.previous_state).raised
                 /\ \E k \in 1..Len(legal_moves(game.game_state)) :
                        legal_moves(game.game_state)[k] = game'.game_state
                 /\ after.game_tree.root = game'.game_state]_vars

\* a game between a MinimaxPlayer and a RandomPlayer in which each has been given the
\* other's move at least once
C29_Witness ==
    /\ last.op = "player1.make_move"
    /\ ply >= 3
    /\ game.player1.cls = "MinimaxPlayer" /\ game.player2.cls = "RandomPlayer"
    /\ game.player1.game_tree.root = game.game_state


\* C30: play_game on tic-tac-toe between players that return a child of their root
\* ends: every ply fills one cell more, so that after at most 9 plies winner() is not
\* None and the loop is left with that winner as the result; the history starts with
\* the initial state and gets exactly one entry per ply, a legal successor of the
\* entry before it, which is the state of the game
C30_TicTacToeGameEnds ==
    [][game.game_state.game = "TicTacToe" =>
          /\ winner(game.game_state) = None
          /\ game'.history.first = ttt_init
          /\ game'.history.length = game.history.length + 1
          /\ game'.history.length = ply' + 1
          /\ game'.history.last = game'.game_state
          /\ \E k \in 1..Len(legal_moves(game.history.last)) :
                 legal_moves(game.history.last)[k] = game'.history.last
          /\ free(game'.game_state) = 9 - ply'
          /\ ply' <= 9
          /\ ply' = 9 => winner(game'.game_state) # None]_vars

\* a game of nine plies that nobody has won, and so a history of ten entries
C30_Witness ==
    /\ game.game_state.game = "TicTacToe"
    /\ last.op \in {"player1.make_move", "player2.make_move"}
    /\ ply = 9
    /\ game.history.length = 10
    /\ winner(game.game_state) = <<FALSE, FALSE>>


=============================================================================
